---- MODULE Spec2Model ----
(***************************************************************************)
(* Model of process_orders (skills/functions/evals/files/sample_python.py). *)
(*                                                                         *)
(* One invocation of process_orders is a sequential program; pc is its      *)
(* position and every action is one step of it between two calls to a      *)
(* collaborator (db.query, db.execute, requests.post, open/write/close).    *)
(* The collaborators' own state (inventory table, processed_orders table,  *)
(* webhook deliveries, orders.log) is part of the model, and so is the      *)
(* heap of order dicts, which the function mutates in place.                *)
(*                                                                         *)
(* Money is an integer number of 1/10000 currency units, and the tax rate   *)
(* an integer percentage, so that subtotal * tax_rate and the 0.01          *)
(* tolerance are exact for the amounts used (all multiples of 0.01).        *)
(***************************************************************************)
EXTENDS Integers, Sequences, FiniteSets, TLC

\* ------------------------------------------------------------------ bounds

\* Longest batch handed to process_orders.
MaxOrders == 2

\* ------------------------------------------------------------------ values

\* u currency units and c hundredths, in 1/10000 units.
Cur(u, c) == u * 10000 + c * 100

Abs(x) == IF x < 0 THEN 0 - x ELSE x

\* Python's None in the orders list.
None == "None"

\* The order dicts on the heap, by identity (each has order["id"] = its name).
OrderRefs == {"o1", "o2", "o3", "o4", "o5", "o6", "o7", "o8", "o9", "o10"}

Item(sku, price, quantity) == [sku |-> sku, price |-> price, quantity |-> quantity]

\* The fields of each order dict that process_orders only reads.
Order(ref) ==
    CASE ref = "o1" -> [id |-> "o1", customer_id |-> "c1", total |-> Cur(115, 0),
                        items |-> <<Item("A", Cur(50, 0), 2)>>]
      [] ref = "o2" -> [id |-> "o2", customer_id |-> "c1", total |-> Cur(126, 0),
                        items |-> <<Item("A", Cur(60, 0), 2)>>]
      [] ref = "o3" -> [id |-> "o3", customer_id |-> "c1", total |-> Cur(132, 0),
                        items |-> <<Item("A", Cur(60, 0), 1), Item("B", Cur(60, 0), 1)>>]
      [] ref = "o4" -> [id |-> "o4", customer_id |-> "c2", total |-> 0,
                        items |-> <<Item("A", Cur(50, 0), 2)>>]
      [] ref = "o5" -> [id |-> "o5", customer_id |-> "c2", total |-> Cur(115, 0),
                        items |-> <<Item("A", Cur(50, 0), 2)>>]
      [] ref = "o6" -> [id |-> "o6", customer_id |-> "c3", total |-> Cur(115, 0),
                        items |-> <<Item("A", Cur(50, 0), 2)>>]
      [] ref = "o7" -> [id |-> "o7", customer_id |-> "c1", total |-> Cur(115, 0),
                        items |-> <<Item("A", Cur(50, 0), 2)>>]
      [] ref = "o8" -> [id |-> "o8", customer_id |-> "c1", total |-> Cur(49, 1),
                        items |-> <<Item("A", Cur(40, 0), 1)>>]
      [] ref = "o9" -> [id |-> "o9", customer_id |-> "c1", total |-> Cur(49, 2),
                        items |-> <<Item("A", Cur(40, 0), 1)>>]
      [] ref = "o10" -> [id |-> "o10", customer_id |-> "c1", total |-> Cur(71, 0),
                         items |-> <<Item("A", Cur(30, 0), 1), Item("A", Cur(30, 0), 1)>>]

\* order["status"] of each dict when process_orders is called.
InitialStatus == [r \in OrderRefs |-> IF r = "o7" THEN "shipped" ELSE "pending"]

\* The customers table: c3 has no row.
Customers == [c \in {"c1", "c2"} |-> [status |-> IF c = "c2" THEN "banned" ELSE "active"]]

\* The inventory tables process_orders is started on (sku -> quantity; a sku
\* outside the domain has no row).
Inventories ==
    { [s \in {"A", "B"} |-> IF s = "A" THEN 2 ELSE 1],
      [s \in {"A", "B"} |-> IF s = "A" THEN 1 ELSE 0],
      [s \in {"A"} |-> 5] }

\* The config dict of the examples of the specification.
config == [tax_rate_pct |-> 10, free_shipping_threshold |-> Cur(100, 0),
           shipping_rate |-> Cur(5, 0)]

\* Every batch: a list of at most MaxOrders references, None and repeated
\* references (the same dict twice) included.
Batches == UNION { [1..n -> OrderRefs \cup {None}] : n \in 0..MaxOrders }

\* ------------------------------------------------------------------ state

VARIABLES
    orders,        \* parameter orders: the list of order references
    notify,        \* parameter notify
    dry_run,       \* parameter dry_run
    status,        \* heap: order["status"] of every order dict
    processed_at,  \* heap: order["processed_at"], 0 while the key is absent
    inventory,     \* db: the inventory table
    saved,         \* db: the processed_orders table
    sent,          \* the webhook: the events it received
    log,           \* orders.log: the lines written
    logOpen,       \* whether process_orders holds orders.log open
    now,           \* the clock read by datetime.now()
    results,       \* local results
    failed,        \* local failed
    total,         \* local total
    i,             \* index into orders of the order of the outer for loop
    k,             \* index into order["items"] of the item of an inner for loop
    pc,            \* position in process_orders
    exc,           \* the exception propagating out of process_orders, if any
    ret,           \* <<value returned>>, <<>> before the return
    first,         \* <<value returned by an earlier dry run on the same arguments>>
    lowered,       \* db: per sku, the quantity taken by writers other than this call
    inventory0,    \* history: inventory when process_orders was called
    status0,       \* history: status when process_orders was called
    seen,          \* history: per order reached, None or its status at that moment
    events         \* history: the collaborator calls made, in order

vars == <<orders, notify, dry_run, status, processed_at, inventory, saved, sent, log,
          logOpen, now, results, failed, total, i, k, pc, exc, ret, first, lowered,
          inventory0, status0, seen, events>>

heapVars == <<status, processed_at>>
storeVars == <<inventory, saved>>
outVars == <<sent, log, logOpen>>
argVars == <<orders, notify, dry_run, first, inventory0, status0>>

Event(op, key, n) == [op |-> op, pos |-> i, key |-> key, n |-> n]

Init ==
    /\ orders \in Batches
    /\ notify \in BOOLEAN
    /\ dry_run \in BOOLEAN
    /\ status = InitialStatus
    /\ processed_at = [r \in OrderRefs |-> 0]
    /\ inventory \in Inventories
    /\ saved = <<>>
    /\ sent = <<>>
    /\ log = <<>>
    /\ logOpen = FALSE
    /\ now = 1
    /\ results = <<>>
    /\ failed = <<>>
    /\ total = 0
    /\ i = 1
    /\ k = 1
    /\ pc = "loop"
    /\ exc = "none"
    /\ ret = <<>>
    /\ first = <<>>
    /\ lowered = [s \in DOMAIN inventory |-> 0]
    /\ inventory0 = inventory
    /\ status0 = status
    /\ seen = <<>>
    /\ events = <<>>

\* ------------------------------------------------------------------ helpers

\* The 0.01 of line 40, in 1/10000 units.
Tolerance == 100

\* Line 10: order is None.
IsNone(o) == o = None

\* Line 12: order.get("status") != "pending".
NotPending(o) == status[o] # "pending"

\* Mutant of Skipped: the status test of line 12 is missing.
SkippedOnlyNone(o) == IsNone(o)

\* Lines 10-13: the order is skipped.
Skipped(o) == IsNone(o) \/ NotPending(o)

\* Mutant of InvalidTotal: < in place of <=.
InvalidTotalStrict(o) == Order(o).total < 0

\* Line 14: order.get("total", 0) <= 0.
InvalidTotal(o) == Order(o).total <= 0

\* Line 19: db.query on customers: <<row>>, or <<>> for no row.
QueryCustomer(cid) == IF cid \in DOMAIN Customers THEN <<Customers[cid]>> ELSE <<>>

\* Line 29: db.query on inventory: <<row>>, or <<>> for no row.
QueryInventory(sku) ==
    IF sku \in DOMAIN inventory THEN <<[quantity |-> inventory[sku]]>> ELSE <<>>

\* Mutant of Insufficient: <= in place of <.
InsufficientOffByOne(stock, item) == stock = <<>> \/ stock[1].quantity <= item.quantity

\* Line 30: not stock or stock["quantity"] < item["quantity"].
Insufficient(stock, item) == stock = <<>> \/ stock[1].quantity < item.quantity

\* Line 31: the reason string.
StockReason(sku) == "insufficient stock for " \o sku

\* Line 35: sum(i["price"] * i["quantity"] for i in order["items"]).
RECURSIVE Subtotal(_)
Subtotal(items) ==
    IF items = <<>> THEN 0
    ELSE Head(items).price * Head(items).quantity + Subtotal(Tail(items))

\* Line 36: subtotal * config["tax_rate"].
Tax(subtotal) == (subtotal * config.tax_rate_pct) \div 100

\* Mutant of Shipping: >= in place of >.
ShippingFreeAtThreshold(subtotal) ==
    IF subtotal >= config.free_shipping_threshold THEN 0 ELSE config.shipping_rate

\* Line 37: 0 if subtotal > config["free_shipping_threshold"] else config["shipping_rate"].
Shipping(subtotal) ==
    IF subtotal > config.free_shipping_threshold THEN 0 ELSE config.shipping_rate

\* Line 38: subtotal + tax + shipping.
ComputeTotal(items) ==
    LET subtotal == Subtotal(items)
    IN  subtotal + Tax(subtotal) + Shipping(subtotal)

\* Mutant of Mismatch: the abs is missing.
MismatchOneSided(t, declared) == t - declared > Tolerance

\* Line 40: abs(total - order["total"]) > 0.01.
Mismatch(t, declared) == Abs(t - declared) > Tolerance

\* Mutant of DoCommit: the dry_run flag is ignored.
DoCommitAlways == TRUE

\* Line 44: if not dry_run.
DoCommit == ~dry_run

\* Mutant of Push: the entry is inserted at the front of the list.
PushFront(list, x) == <<x>> \o list

\* Lines 15, 21, 24, 31, 41, 70: list.append.
Push(list, x) == Append(list, x)

\* Lines 15, 21, 24, 31, 41: an entry of failed (it holds the order dict itself).
Failure(o, reason) == [order |-> o, reason |-> reason]

\* Line 70: an entry of results.
Processed(o, t) == [order_id |-> Order(o).id, total |-> t, status |-> "processed"]

\* Mutant of BatchResult: summary.total counts every recorded order.
BatchResultCountsAll(rs, fs) ==
    [processed |-> rs, failed |-> fs,
     summary |-> [total |-> Len(rs) + Len(fs), failed |-> Len(fs)]]

\* Line 72: the returned dict.
BatchResult(rs, fs) ==
    [processed |-> rs, failed |-> fs,
     summary |-> [total |-> Len(rs), failed |-> Len(fs)]]

\* The order of the outer loop.
order == orders[i]

\* ------------------------------------------------------------------ steps

\* The continue statements and the end of the loop body: on to the next order.
Continue == i' = i + 1 /\ k' = 1 /\ pc' = "loop"

\* Lines 15-16, 21-22, 24-25, 31-32, 41-42: record the failure, next order.
Fail(reason) ==
    /\ failed' = Push(failed, Failure(order, reason))
    /\ Continue

\* An exception leaves process_orders.
Raise(e) == pc' = "raised" /\ exc' = e /\ UNCHANGED <<i, k>>

\* Lines 9-16: take the next order; skip it, fail it on its total, or go on.
NextOrder ==
    /\ pc = "loop"
    /\ i <= Len(orders)
    /\ seen' = Append(seen, IF IsNone(order) THEN None ELSE status[order])
    /\ IF Skipped(order)
         THEN Continue /\ UNCHANGED failed
         ELSE IF InvalidTotal(order)
                THEN Fail("invalid total")
                ELSE pc' = "customer" /\ UNCHANGED <<i, k, failed>>
    /\ UNCHANGED <<argVars, lowered, heapVars, storeVars, outVars, now, results, total, exc,
                   ret, events>>

\* Lines 19-25: look the customer up; fail the order if absent or banned.
ValidateCustomer ==
    /\ pc = "customer"
    /\ LET customer == QueryCustomer(Order(order).customer_id)
       IN  IF customer = <<>>
             THEN Fail("customer not found")
             ELSE IF customer[1].status = "banned"
                    THEN Fail("customer banned")
                    ELSE /\ pc' = IF Order(order).items = <<>> THEN "price" ELSE "check"
                         /\ k' = 1
                         /\ UNCHANGED <<i, failed>>
    /\ events' = Append(events, Event("query_customer", Order(order).customer_id, 0))
    /\ UNCHANGED <<argVars, lowered, heapVars, storeVars, outVars, now, results, total, exc,
                   ret, seen>>

\* Lines 28-33: one iteration of the inventory check; break on the first item
\* short of stock, and fall into the else clause after the last item.
CheckItem ==
    /\ pc = "check"
    /\ LET item == Order(order).items[k]
           stock == QueryInventory(item.sku)
       IN  /\ events' = Append(events, Event("query_inventory", item.sku, 0))
           /\ IF Insufficient(stock, item)
                THEN Fail(StockReason(item.sku))
                ELSE /\ k' = k + 1
                     /\ pc' = IF k = Len(Order(order).items) THEN "price" ELSE "check"
                     /\ UNCHANGED <<i, failed>>
    /\ UNCHANGED <<argVars, lowered, heapVars, storeVars, outVars, now, results, total, exc,
                   ret, seen>>

\* Lines 35-44: compute the total, fail on a mismatch, else enter the commit
\* (or go straight to line 70 in a dry run).
Reconcile ==
    /\ pc = "price"
    /\ total' = ComputeTotal(Order(order).items)
    /\ IF Mismatch(total', Order(order).total)
         THEN Fail("total mismatch")
         ELSE /\ pc' = IF DoCommit
                         THEN IF Order(order).items = <<>> THEN "save" ELSE "decrement"
                         ELSE "append"
              /\ k' = 1
              /\ UNCHANGED <<i, failed>>
    /\ UNCHANGED <<argVars, lowered, heapVars, storeVars, outVars, now, results, exc, ret,
                   seen, events>>

\* Mutant of Decrement: the UPDATE takes nothing when the stock is short.
DecrementGuarded(inv, item) ==
    IF item.sku \in DOMAIN inv /\ inv[item.sku] >= item.quantity
      THEN [inv EXCEPT ![item.sku] = @ - item.quantity]
      ELSE inv

\* Mutant of Decrement: one unit is taken whatever the quantity.
DecrementByOne(inv, item) ==
    IF item.sku \in DOMAIN inv THEN [inv EXCEPT ![item.sku] = @ - 1] ELSE inv

\* Lines 47-48: UPDATE inventory SET quantity = quantity - %s WHERE sku = %s.
Decrement(inv, item) ==
    IF item.sku \in DOMAIN inv THEN [inv EXCEPT ![item.sku] = @ - item.quantity] ELSE inv

\* Lines 46-48: db.execute(UPDATE inventory ...) for one item; it returns or raises.
DecrementItem ==
    /\ pc = "decrement"
    /\ LET item == Order(order).items[k]
       IN  /\ events' = Append(events, Event("decrement", item.sku, item.quantity))
           /\ \E outcome \in {"ok", "error"} :
                IF outcome = "ok"
                  THEN /\ inventory' = Decrement(inventory, item)
                       /\ k' = k + 1
                       /\ pc' = IF k = Len(Order(order).items) THEN "save" ELSE "decrement"
                       /\ UNCHANGED <<i, exc>>
                  ELSE Raise("store") /\ UNCHANGED inventory
    /\ UNCHANGED <<argVars, lowered, heapVars, saved, outVars, now, results, failed, total,
                   ret, seen>>

\* Mutant of DoNotify: the notify flag is ignored.
DoNotifyAlways == TRUE

\* Line 56: if notify.
DoNotify == notify

\* Mutant of AfterSave: the notification is left out.
AfterSaveSkipsNotify == "log"

\* Lines 56-67: after the INSERT comes the notification, if asked for, then the log.
AfterSave == IF DoNotify THEN "notify" ELSE "log"

\* Lines 51-53: mark the dict processed, stamp it, then db.execute(INSERT ...),
\* which returns or raises.
SaveOrder ==
    /\ pc = "save"
    /\ status' = [status EXCEPT ![order] = "processed"]
    /\ processed_at' = [processed_at EXCEPT ![order] = now]
    /\ now' = now + 1
    /\ events' = Append(events, Event("save", Order(order).id, 0))
    /\ \E outcome \in {"ok", "error"} :
         IF outcome = "ok"
           THEN /\ saved' = Append(saved, [id |-> Order(order).id, status |-> status'[order],
                                           processed_at |-> processed_at'[order]])
                /\ pc' = AfterSave
                /\ UNCHANGED <<i, k, exc>>
           ELSE Raise("store") /\ UNCHANGED saved
    /\ UNCHANGED <<argVars, lowered, inventory, outVars, results, failed, total, ret, seen>>

\* Mutant of PostFailed: the exception of requests.post is not caught.
PostFailedRaises == [pc |-> "raised", exc |-> "http"]

\* Lines 63-64: except: pass.
PostFailed == [pc |-> "log", exc |-> "none"]

\* Lines 56-64: requests.post inside try/except; it delivers or raises.
Notify ==
    /\ pc = "notify"
    /\ events' = Append(events, Event("post", Order(order).id, total))
    /\ \E outcome \in {"ok", "error"} :
         IF outcome = "ok"
           THEN /\ sent' = Append(sent, [event |-> "order_processed",
                                         order_id |-> Order(order).id, total |-> total])
                /\ pc' = "log"
                /\ exc' = "none"
           ELSE /\ pc' = PostFailed.pc
                /\ exc' = PostFailed.exc
                /\ UNCHANGED sent
    /\ UNCHANGED <<argVars, lowered, heapVars, storeVars, log, logOpen, now, results, failed,
                   total, i, k, ret, seen>>

\* Line 67: open(..., "a"); it returns the file or raises.
LogOpen ==
    /\ pc = "log"
    /\ events' = Append(events, Event("open", "orders.log", 0))
    /\ \E outcome \in {"ok", "error"} :
         IF outcome = "ok"
           THEN logOpen' = TRUE /\ pc' = "write" /\ UNCHANGED <<i, k, exc>>
           ELSE Raise("io") /\ UNCHANGED logOpen
    /\ UNCHANGED <<argVars, lowered, heapVars, storeVars, sent, log, now, results, failed,
                   total, ret, seen>>

\* Mutant of WriteFailed: the file is not closed when the write fails.
WriteFailedLeaks == [pc |-> "raised", exc |-> "io"]

\* Lines 67-68: an exception of f.write leaves through the with block.
WriteFailed == [pc |-> "close", exc |-> "io"]

\* Line 68: f.write(...); on an error the with statement still runs __exit__.
LogWrite ==
    /\ pc = "write"
    /\ events' = Append(events, Event("write", Order(order).id, total))
    /\ now' = now + 1
    /\ \E outcome \in {"ok", "error"} :
         IF outcome = "ok"
           THEN /\ log' = Append(log, [at |-> now, order_id |-> Order(order).id,
                                       total |-> total])
                /\ pc' = "close"
                /\ UNCHANGED exc
           ELSE /\ pc' = WriteFailed.pc
                /\ exc' = WriteFailed.exc
                /\ UNCHANGED log
    /\ UNCHANGED <<argVars, lowered, heapVars, storeVars, sent, logOpen, results, failed,
                   total, i, k, ret, seen>>

\* Line 67, leaving the with block: the file is closed, and a pending write
\* error goes on propagating.
LogClose ==
    /\ pc = "close"
    /\ events' = Append(events, Event("close", "orders.log", 0))
    /\ logOpen' = FALSE
    /\ pc' = IF exc = "none" THEN "append" ELSE "raised"
    /\ UNCHANGED <<argVars, lowered, heapVars, storeVars, sent, log, now, results, failed,
                   total, i, k, exc, ret, seen>>

\* Line 70: results.append(...), the end of the loop body.
AppendResult ==
    /\ pc = "append"
    /\ results' = Push(results, Processed(order, total))
    /\ Continue
    /\ UNCHANGED <<argVars, lowered, heapVars, storeVars, outVars, now, failed, total, exc,
                   ret, seen, events>>

\* Line 72: the loop is over.
Return ==
    /\ pc = "loop"
    /\ i > Len(orders)
    /\ ret' = <<BatchResult(results, failed)>>
    /\ pc' = "done"
    /\ UNCHANGED <<argVars, lowered, heapVars, storeVars, outVars, now, results, failed, total,
                   i, k, exc, seen, events>>

\* The caller of a dry run calls process_orders again for real, with the same
\* orders, db, config and notify.
CallAgain ==
    /\ pc = "done"
    /\ dry_run
    /\ first = <<>>
    /\ first' = ret
    /\ dry_run' = FALSE
    /\ inventory0' = inventory
    /\ status0' = status
    /\ results' = <<>>
    /\ failed' = <<>>
    /\ total' = 0
    /\ i' = 1
    /\ k' = 1
    /\ pc' = "loop"
    /\ ret' = <<>>
    /\ seen' = <<>>
    /\ events' = <<>>
    /\ UNCHANGED <<orders, notify, heapVars, storeVars, outVars, now, exc, lowered>>

Next ==
    \/ NextOrder
    \/ ValidateCustomer
    \/ CheckItem
    \/ Reconcile
    \/ DecrementItem
    \/ SaveOrder
    \/ Notify
    \/ LogOpen
    \/ LogWrite
    \/ LogClose
    \/ AppendResult
    \/ Return
    \/ CallAgain

Spec == Init /\ [][Next]_vars

\* Section 5 of the specification: the store is shared with writers outside
\* this call. Such a writer takes one unit of a sku in stock, at any moment
\* while process_orders runs.
ExternalWrite ==
    /\ pc \notin {"done", "raised"}
    /\ \E s \in DOMAIN inventory :
         /\ inventory[s] > 0
         /\ inventory' = [inventory EXCEPT ![s] = @ - 1]
         /\ lowered' = [lowered EXCEPT ![s] = @ + 1]
    /\ UNCHANGED <<argVars, heapVars, saved, outVars, now, results, failed, total,
                   i, k, pc, exc, ret, seen, events>>

\* A real run against a shared store.
InitRace ==
    /\ Init
    /\ ~dry_run

NextRace ==
    \/ NextOrder
    \/ ValidateCustomer
    \/ CheckItem
    \/ Reconcile
    \/ DecrementItem
    \/ SaveOrder
    \/ Notify
    \/ LogOpen
    \/ LogWrite
    \/ LogClose
    \/ AppendResult
    \/ Return
    \/ ExternalWrite

SpecRace == InitRace /\ [][NextRace]_vars

\* ------------------------------------------------------------------ claims

\* The positions of the batch whose order was not skipped: not None and
\* pending when the loop reached it.
NonSkipped == {p \in 1..Len(seen) : seen[p] = "pending"}

\* The elements of s at the positions of S from p on, in input order.
RECURSIVE SelFrom(_, _, _)
SelFrom(s, S, p) ==
    IF p > Len(s) THEN <<>>
    ELSE (IF p \in S THEN <<s[p]>> ELSE <<>>) \o SelFrom(s, S, p + 1)

ProcessedIds == [j \in 1..Len(results) |-> results[j].order_id]
FailedOrders == [j \in 1..Len(failed) |-> failed[j].order]

\* C1: after process_orders returns, the non-skipped positions of the batch
\* split into two sets: results lists the orders of the one and failed the
\* orders of the other, each in input order; no order is in both lists.
C1_Partition ==
    pc = "done" =>
        /\ \E P \in SUBSET NonSkipped :
             /\ ProcessedIds = SelFrom(orders, P, 1)
             /\ FailedOrders = SelFrom(orders, NonSkipped \ P, 1)
        /\ \A a \in 1..Len(results), b \in 1..Len(failed) :
             results[a].order_id # failed[b].order

\* C1 witness: a returned batch with one order in each list.
C1_Witness ==
    /\ pc = "done"
    /\ Len(results) = 1
    /\ Len(failed) = 1
    /\ Len(orders) = 2

\* C2: process_orders always ends by returning a BatchResult that accounts
\* for every non-skipped order; no exception leaves it.
C2_BatchNeverFails ==
    /\ pc # "raised"
    /\ pc = "done" =>
         /\ Len(ret) = 1
         /\ Len(ret[1].processed) + Len(ret[1].failed) = Cardinality(NonSkipped)

\* C3: when db.execute fails during the commit of an order, that order is in
\* failed with a store-error reason and not in results.
C3_StoreErrorRecorded ==
    exc = "store" =>
        /\ \E j \in 1..Len(failed) : failed[j] = Failure(order, "store error")
        /\ \A j \in 1..Len(results) : results[j].order_id # Order(order).id

\* The batch holds no order dict twice.
DistinctOrders == \A a, b \in 1..Len(orders) : orders[a] = orders[b] => a = b

\* C4: a dry run and the real run that follows it on the same orders, the
\* same store contents and the same config return the same processed and
\* failed lists (stated for batches of distinct orders).
C4_DryRunSamePartition ==
    (pc = "done" /\ first # <<>> /\ DistinctOrders) =>
        /\ ret[1].processed = first[1].processed
        /\ ret[1].failed = first[1].failed

\* An order passes every validation stage on the store as it is.
PassesValidation(o) ==
    /\ o # None
    /\ status[o] = "pending"
    /\ Order(o).total > 0
    /\ Order(o).customer_id \in DOMAIN Customers
    /\ Customers[Order(o).customer_id].status # "banned"
    /\ \A n \in 1..Len(Order(o).items) :
         /\ Order(o).items[n].sku \in DOMAIN inventory
         /\ inventory[Order(o).items[n].sku] >= Order(o).items[n].quantity
    /\ Abs(ComputeTotal(Order(o).items) - Order(o).total) <= Tolerance

PassingPositions == {p \in 1..Len(orders) : PassesValidation(orders[p])}

\* C5: in a dry run nothing is committed at any point (inventory, order
\* status and timestamp, persisted orders, notifications and the log are as
\* they were at the call, and no store write, post or file operation is
\* made), and the returned results list exactly the orders that pass every
\* validation stage, in input order, each with its computed total.
C5_DryRunNoSideEffects ==
    dry_run =>
        /\ inventory = inventory0
        /\ status = status0
        /\ processed_at = [r \in OrderRefs |-> 0]
        /\ saved = <<>>
        /\ sent = <<>>
        /\ log = <<>>
        /\ ~logOpen
        /\ \A e \in 1..Len(events) :
             events[e].op \in {"query_customer", "query_inventory"}
        /\ pc = "done" =>
             ret[1].processed =
                 [j \in 1..Cardinality(PassingPositions) |->
                     LET o == SelFrom(orders, PassingPositions, 1)[j]
                     IN  [order_id |-> Order(o).id,
                          total |-> ComputeTotal(Order(o).items),
                          status |-> "processed"]]

\* C5 witness: a returned dry run with two orders recorded processed.
C5_Witness ==
    /\ dry_run
    /\ pc = "done"
    /\ Len(ret[1].processed) = 2

\* An item is short of stock: no inventory row, or fewer than requested.
Short(item) == item.sku \notin DOMAIN inventory \/ inventory[item.sku] < item.quantity

\* The index of the first item short of stock, 0 if there is none.
FirstShort(items) ==
    IF \E n \in 1..Len(items) : Short(items[n])
      THEN CHOOSE n \in 1..Len(items) :
               Short(items[n]) /\ \A m \in 1..(n - 1) : ~Short(items[m])
      ELSE 0

\* The events of one kind made for the order at position p.
EventsOf(evs, op, p) == SelectSeq(evs, LAMBDA e : e.op = op /\ e.pos = p)

\* C6: while an order is in the inventory check, the check has not passed the
\* first item short of stock; the step that reaches that item records the
\* order failed with that item's SKU and moves to the next order, having
\* looked up the items up to it and no other, and having decremented nothing
\* (no decrement was issued for this order and the inventory is unchanged);
\* and an order fails the check only so.
C6_ShortCircuit ==
    [][ pc = "check" =>
          LET items == Order(order).items
              f == FirstShort(items)
              failing == failed' # failed
          IN  /\ f = 0 \/ k <= f
              /\ inventory' = inventory
              /\ failing <=> (f = k)
              /\ failing =>
                   /\ failed' = Append(failed,
                          [order |-> order,
                           reason |-> "insufficient stock for " \o items[f].sku])
                   /\ results' = results
                   /\ i' = i + 1
                   /\ pc' = "loop"
                   /\ [n \in 1..Len(EventsOf(events', "query_inventory", i)) |->
                          EventsOf(events', "query_inventory", i)[n].key]
                        = [n \in 1..f |-> items[n].sku]
                   /\ EventsOf(events', "decrement", i) = <<>> ]_vars

\* C6 witness: a real run returned with o3 (A in stock, B not) failed on B
\* and the inventory as it was at the call.
C6_Witness ==
    /\ pc = "done"
    /\ ~dry_run
    /\ \E j \in 1..Len(failed) :
         failed[j] = [order |-> "o3", reason |-> "insufficient stock for B"]
    /\ inventory = inventory0
    /\ inventory0["A"] >= 1

\* C7: an order that is None or not pending when the loop reaches it is only
\* stepped over: nothing but the loop index changes, so it enters neither
\* list; and the two summary counts together count the non-skipped orders.
C7_PureSkip ==
    /\ [][ (pc = "loop" /\ i <= Len(orders)
             /\ (orders[i] = None \/ status[orders[i]] # "pending")) =>
           /\ pc' = "loop"
           /\ i' = i + 1
           /\ UNCHANGED <<results, failed, status, processed_at, inventory, saved,
                          sent, log, logOpen, events, ret>> ]_vars
    /\ [](pc = "done" =>
            ret[1].summary.total + ret[1].summary.failed = Cardinality(NonSkipped))

\* C7 witness: a returned batch of a None and a non-pending order, both lists
\* empty.
C7_Witness ==
    /\ pc = "done"
    /\ seen = <<None, "shipped">>
    /\ ret[1].processed = <<>>
    /\ ret[1].failed = <<>>
    /\ ret[1].summary = [total |-> 0, failed |-> 0]

\* The declared total of the order behind an entry of results.
Declared(r) == Order(r.order_id).total

\* C8: every entry of results has a total within 0.01 of the order's declared
\* total; and an order that reaches pricing with a computed total further
\* than 0.01 from the declared one is recorded failed with "total mismatch",
\* not processed, and nothing is committed for it.
C8_TotalWithinTolerance ==
    /\ [](\A j \in 1..Len(results) :
            /\ results[j].total - Declared(results[j]) <= Tolerance
            /\ Declared(results[j]) - results[j].total <= Tolerance)
    /\ [][ (pc = "price"
             /\ (\/ total' - Order(order).total > Tolerance
                 \/ Order(order).total - total' > Tolerance)) =>
           /\ failed' = Append(failed, [order |-> order, reason |-> "total mismatch"])
           /\ pc' = "loop"
           /\ i' = i + 1
           /\ UNCHANGED <<results, status, processed_at, inventory, saved, sent, log,
                          logOpen, events>> ]_vars

\* C8 witness: a real run returned with o2 (60 x 2, declared 126, computed
\* 132) failed on the mismatch and o8 (declared 49.01, computed 49) processed,
\* with only the inventory of o8 taken.
C8_Witness ==
    /\ pc = "done"
    /\ ~dry_run
    /\ ret[1].failed = <<[order |-> "o2", reason |-> "total mismatch"]>>
    /\ ret[1].processed = <<[order_id |-> "o8", total |-> Cur(49, 0), status |-> "processed"]>>
    /\ inventory["A"] = inventory0["A"] - 1

\* subtotal, tax and shipping as the specification states them.
RECURSIVE SumTo(_, _)
SumTo(items, n) ==
    IF n = 0 THEN 0 ELSE SumTo(items, n - 1) + items[n].price * items[n].quantity

ExpectedTotal(items) ==
    LET subtotal == SumTo(items, Len(items))
        shipping == IF subtotal <= config.free_shipping_threshold
                      THEN config.shipping_rate ELSE 0
    IN  (subtotal * 100 + subtotal * config.tax_rate_pct + shipping * 100) \div 100

\* C9: the total computed for an order, and recorded for it in results, is
\* subtotal + subtotal * taxRate + shipping, with shipping 0 only when the
\* subtotal is strictly above the threshold.
C9_TotalFormula ==
    /\ [](\A j \in 1..Len(results) :
            results[j].total = ExpectedTotal(Order(results[j].order_id).items))
    /\ [][pc = "price" => total' = ExpectedTotal(Order(order).items)]_vars

\* C9 witness: o1 (50 x 2, subtotal equal to the threshold) is recorded
\* processed with total 115, shipping charged.
C9_Witness ==
    /\ pc = "done"
    /\ \E j \in 1..Len(ret[1].processed) :
         ret[1].processed[j] = [order_id |-> "o1", total |-> Cur(115, 0), status |-> "processed"]

\* The order ids of a list of records with an order_id field.
Ids(list) == [j \in 1..Len(list) |-> list[j].order_id]

\* C10: the notification step, delivered or failed, moves on to the log step
\* with no exception pending and changes nothing but the webhook's deliveries;
\* and in a returned real run with notify every order for which a post was
\* attempted, delivered or not, is in results, in the log and persisted.
C10_NotifyFailureSwallowed ==
    /\ [][ pc = "notify" =>
           /\ pc' = "log"
           /\ exc' = "none"
           /\ UNCHANGED <<results, failed, total, i, k, status, processed_at,
                          inventory, saved, log, logOpen, ret>> ]_vars
    /\ [](pc = "done" /\ ~dry_run /\ notify =>
            LET posts == SelectSeq(events, LAMBDA e : e.op = "post")
                tried == [j \in 1..Len(posts) |-> posts[j].key]
            IN  /\ tried = Ids(results)
                /\ tried = Ids(log)
                /\ tried = [j \in 1..Len(saved) |-> saved[j].id]
                /\ \A j \in 1..Len(sent) : \E n \in 1..Len(results) :
                     sent[j].order_id = results[n].order_id)

\* C10 witness: a real run with notify returned two processed orders, both
\* logged and persisted, although the notification of the first one failed.
C10_Witness ==
    /\ pc = "done"
    /\ ~dry_run
    /\ notify
    /\ Len(results) = 2
    /\ Len(log) = 2
    /\ Len(saved) = 2
    /\ Len(sent) = 1
    /\ sent[1].order_id = results[2].order_id

\* C11: once process_orders has ended, by a return or by an exception, an
\* order dict has a changed status or a processed timestamp only if the run
\* was not a dry run and the order is in results.
C11_MutatedOnlyIfProcessed ==
    pc \in {"done", "raised"} =>
        \A r \in OrderRefs :
            (status[r] # status0[r] \/ processed_at[r] # 0) =>
                /\ ~dry_run
                /\ \E j \in 1..Len(results) : results[j].order_id = Order(r).id

\* The collaborator calls that belong to the commit.
CommitOps == {"decrement", "save", "post", "open", "write", "close"}

\* The positions in process_orders inside the commit (lines 46-68).
CommitPcs == {"decrement", "save", "notify", "log", "write", "close"}

\* The quantity of a sku the decrements issued for the order at position p took.
RECURSIVE TakenIn(_, _, _)
TakenIn(evs, p, sku) ==
    IF evs = <<>> THEN 0
    ELSE (IF Head(evs).op = "decrement" /\ Head(evs).pos = p /\ Head(evs).key = sku
            THEN Head(evs).n ELSE 0) + TakenIn(Tail(evs), p, sku)

\* The order being committed passed every validation stage: total, customer,
\* stock (on the inventory as it was before this order's own decrements,
\* external writes aside) and price.
CurrentOrderValidated ==
    LET o == Order(order)
    IN  /\ seen[i] = "pending"
        /\ o.total > 0
        /\ o.customer_id \in DOMAIN Customers
        /\ Customers[o.customer_id].status # "banned"
        /\ \A n \in 1..Len(o.items) :
             /\ o.items[n].sku \in DOMAIN inventory
             /\ inventory[o.items[n].sku] + TakenIn(events, i, o.items[n].sku)
                  >= o.items[n].quantity
        /\ Abs(ExpectedTotal(o.items) - o.total) <= Tolerance

\* C12: the commit is entered only in a real run and only by an order that
\* passed every validation stage; only steps inside the commit change the
\* inventory, the order dicts, processed_orders, the webhook or the log; every
\* commit call on record was made in a real run for a pending order that is
\* not in failed; and a post is made only when notify is true.
C12_CommitOnlyAfterValidation ==
    /\ [](pc \in CommitPcs => ~dry_run /\ CurrentOrderValidated)
    /\ [](\A e \in 1..Len(events) :
            events[e].op \in CommitOps =>
                /\ ~dry_run
                /\ seen[events[e].pos] = "pending"
                /\ (pc \in {"done", "loop"} =>
                      \A j \in 1..Len(failed) : failed[j].order # orders[events[e].pos])
                /\ (events[e].op = "post" => notify))
    /\ [](sent # <<>> => notify /\ ~dry_run)
    /\ [][ (\/ inventory' # inventory \/ saved' # saved \/ status' # status
            \/ processed_at' # processed_at \/ sent' # sent \/ log' # log
            \/ logOpen' # logOpen) => pc \in CommitPcs ]_vars

\* C12 witness: a real run without notify returned one processed and one
\* failed order; the only commit calls on record are those of the first.
C12_Witness ==
    /\ pc = "done"
    /\ ~dry_run
    /\ ~notify
    /\ Len(results) = 1
    /\ Len(failed) = 1
    /\ seen = <<"pending", "pending">>
    /\ results[1].order_id = orders[1]
    /\ \E e \in 1..Len(events) : events[e].op = "write"
    /\ \A e \in 1..Len(events) : events[e].op \in CommitOps => events[e].pos = 1

\* C13: in the returned BatchResult, summary.total is the length of the
\* processed list and summary.failed the length of the failed list, and the
\* two lists are the function's results and failed.
C13_SummaryCounts ==
    pc = "done" =>
        /\ Len(ret) = 1
        /\ ret[1].processed = results
        /\ ret[1].failed = failed
        /\ ret[1].summary.total = Len(ret[1].processed)
        /\ ret[1].summary.failed = Len(ret[1].failed)

\* C13 witness: a returned batch with two failed orders and none processed.
C13_Witness ==
    /\ pc = "done"
    /\ ret[1].processed = <<>>
    /\ Len(ret[1].failed) = 2
    /\ ret[1].summary = [total |-> 0, failed |-> 2]

\* The reason of the earliest validation stage the order violates on the
\* store as it is, "" if it violates none.
ExpectedReason(o) ==
    IF Order(o).total <= 0 THEN "invalid total"
    ELSE IF Order(o).customer_id \notin DOMAIN Customers THEN "customer not found"
    ELSE IF Customers[Order(o).customer_id].status = "banned" THEN "customer banned"
    ELSE IF FirstShort(Order(o).items) # 0
           THEN "insufficient stock for " \o Order(o).items[FirstShort(Order(o).items)].sku
    ELSE IF Abs(ExpectedTotal(Order(o).items) - Order(o).total) > Tolerance
           THEN "total mismatch"
    ELSE ""

\* The store lookups an order has had made when it fails at a stage: none
\* for the total, the customer for the customer stage, then the items up to
\* the failing one, and all of them for the price.
ExpectedLookups(o) ==
    LET items == Order(o).items
        f == FirstShort(items)
        cust == <<Order(o).customer_id>>
    IN  IF Order(o).total <= 0 THEN <<>>
        ELSE IF \/ Order(o).customer_id \notin DOMAIN Customers
                \/ Customers[Order(o).customer_id].status = "banned" THEN cust
        ELSE cust \o [n \in 1..(IF f # 0 THEN f ELSE Len(items)) |-> items[n].sku]

\* The keys of the calls on record for position p.
CallsAt(evs, p) ==
    LET at == SelectSeq(evs, LAMBDA e : e.pos = p)
    IN  [n \in 1..Len(at) |-> at[n].key]

\* C14: a step that records a failure records the reason of the earliest
\* stage the order violates (total, customer found, customer banned, stock,
\* price, in this order), having made the store lookups of the stages up to
\* that one and no other call, and the order is done with; an order that
\* violates a stage never gets to the commit or to results.
C14_StageOrder ==
    /\ [][ Len(failed') > Len(failed) =>
           /\ failed' = Append(failed,
                               [order |-> order, reason |-> ExpectedReason(order)])
           /\ CallsAt(events', i) = ExpectedLookups(order)
           /\ i' = i + 1
           /\ pc' = "loop" ]_vars
    /\ [][ (pc = "price" /\ pc' \in {"decrement", "save", "append"}) =>
             ExpectedReason(order) = "" ]_vars

\* C14 witness: o4 (total 0, banned customer) alone is failed with "invalid
\* total" and no store lookup was made.
C14_Witness ==
    /\ pc = "done"
    /\ orders = <<"o4">>
    /\ failed = <<[order |-> "o4", reason |-> "invalid total"]>>
    /\ events = <<>>

\* The calls on record for position p.
EventsAt(evs, p) == SelectSeq(evs, LAMBDA e : e.pos = p)

\* All the calls of an order at position p that is validated and committed:
\* the customer lookup, a stock lookup per item, a decrement per item in
\* item-list order, the save, the post if notify, then open, write, close.
FullEvents(p) ==
    LET o == Order(orders[p])
        n == Len(o.items)
        t == ExpectedTotal(o.items)
        ev(op, key, q) == [op |-> op, pos |-> p, key |-> key, n |-> q]
    IN  <<ev("query_customer", o.customer_id, 0)>>
        \o [m \in 1..n |-> ev("query_inventory", o.items[m].sku, 0)]
        \o [m \in 1..n |-> ev("decrement", o.items[m].sku, o.items[m].quantity)]
        \o <<ev("save", o.id, 0)>>
        \o (IF notify THEN <<ev("post", o.id, t)>> ELSE <<>>)
        \o <<ev("open", "orders.log", 0), ev("write", o.id, t),
             ev("close", "orders.log", 0)>>

IsPrefix(s, t) == Len(s) <= Len(t) /\ \A n \in 1..Len(s) : s[n] = t[n]

\* The positions whose order went through the whole commit.
Committed == {p \in NonSkipped : EventsAt(events, p) = FullEvents(p)}

\* C15: the calls on record are grouped by order, in input order (every call
\* for an order comes after every call for an earlier one); the calls of each
\* order are a prefix of: lookups, decrements in item-list order, save, post
\* if notify, log open/write/close; a skipped order has no call; the save
\* step is the one that marks the dict processed and stamps it; and in a
\* real run the orders in results are those that went through the whole
\* sequence.
C15_CommitOrder ==
    /\ [](\A a, b \in 1..Len(events) : a < b => events[a].pos <= events[b].pos)
    /\ [](\A p \in 1..Len(seen) :
            IF seen[p] = "pending"
              THEN IsPrefix(EventsAt(events, p), FullEvents(p))
              ELSE EventsAt(events, p) = <<>>)
    /\ [](\A e \in 1..Len(events) : events[e].pos \in 1..Len(seen))
    /\ []((pc \in {"loop", "done"} /\ ~dry_run) =>
            ProcessedIds = SelFrom(orders, Committed, 1))
    /\ [][ pc = "save" =>
           /\ status[order] = "pending"
           /\ status'[order] = "processed"
           /\ processed_at'[order] = now
           /\ inventory' = inventory ]_vars

\* C15 witness: a real run with notify returned two committed orders, the
\* first of them with two items.
C15_Witness ==
    /\ pc = "done"
    /\ ~dry_run
    /\ notify
    /\ Committed = {1, 2}
    /\ Len(Order(orders[1]).items) = 2
    /\ Len(results) = 2

\* No order of the batch names a sku in two of its items.
NoRepeatedSku ==
    \A p \in 1..Len(orders) :
        orders[p] # None =>
            \A a, b \in 1..Len(Order(orders[p]).items) :
                Order(orders[p]).items[a].sku = Order(orders[p]).items[b].sku => a = b

\* C16: with writers outside the call, the decrement is not re-validated:
\* every decrement that returns takes the requested quantity from whatever
\* the stock then is, short or not, and the commit goes on; and, orders with
\* a repeated sku aside, a quantity is negative only where such a writer
\* took stock.
C16_CheckThenActRace ==
    /\ [][ (pc = "decrement" /\ pc' # "raised" /\ lowered' = lowered) =>
           LET item == Order(order).items[k]
           IN  /\ inventory' = [inventory EXCEPT ![item.sku] = @ - item.quantity]
               /\ pc' \in {"decrement", "save"} ]_vars
    /\ [](NoRepeatedSku =>
            \A s \in DOMAIN inventory : inventory[s] < 0 => lowered[s] > 0)

\* C16 witness: a returned run in which an order without a repeated sku is in
\* results although a writer took stock after its check: the quantity it
\* decremented is negative.
C16_Witness ==
    /\ pc = "done"
    /\ NoRepeatedSku
    /\ \E j \in 1..Len(results), n \in 1..2 :
         LET items == Order(results[j].order_id).items
         IN  /\ n <= Len(items)
             /\ inventory[items[n].sku] < 0
             /\ lowered[items[n].sku] > 0
             /\ inventory0[items[n].sku] >= items[n].quantity

\* The number of calls of one kind on record for position p.
CountOf(op, p) == Len(SelectSeq(events, LAMBDA e : e.op = op /\ e.pos = p))

\* C17: orders.log is held open only between the open and the end of the
\* with block of an order being committed in a real run: it is closed in
\* every other position, in particular when process_orders goes on to the
\* next order, returns or raises; the write, failed or not, is followed by
\* the close; the file is opened only for an order already saved, at most
\* once per order, and never in a dry run.
C17_LogHandleReleased ==
    /\ [](logOpen => pc \in {"write", "close"} /\ ~dry_run)
    /\ [](pc \in {"write", "close"} => logOpen)
    /\ [][ pc = "write" => pc' = "close" /\ logOpen' ]_vars
    /\ [][ pc = "close" => ~logOpen' /\ pc' \in {"append", "raised"} ]_vars
    /\ [][ (logOpen' /\ ~logOpen) => pc = "log" ]_vars
    /\ [](\A p \in 1..Len(orders) :
            /\ CountOf("open", p) <= 1
            /\ CountOf("close", p) <= CountOf("open", p)
            /\ CountOf("open", p) <= CountOf("save", p)
            /\ CountOf("open", p) > 0 =>
                 ~dry_run /\ p <= Len(seen) /\ seen[p] = "pending")
    /\ []((pc \in {"loop", "done"} /\ ~dry_run) =>
            \A p \in 1..(i - 1) :
                /\ CountOf("close", p) = CountOf("open", p)
                /\ CountOf("open", p) = (IF p \in Committed THEN 1 ELSE 0))

\* C17 witness: the write to orders.log failed, the file was closed all the
\* same, and the exception left process_orders.
C17_Witness ==
    /\ pc = "raised"
    /\ exc = "io"
    /\ ~logOpen
    /\ CountOf("write", i) = 1
    /\ CountOf("close", i) = 1
    /\ log = <<>>

\* C18: with no writer outside the call and no store error, no inventory
\* quantity is negative at any point of a run started on non-negative
\* quantities.
C18_InventoryNeverNegative ==
    (exc # "store" /\ \A s \in DOMAIN inventory0 : inventory0[s] >= 0) =>
        \A s \in DOMAIN inventory : inventory[s] >= 0

\* The quantity of a sku requested by the items of an order.
RECURSIVE Requested(_, _)
Requested(items, sku) ==
    IF items = <<>> THEN 0
    ELSE (IF Head(items).sku = sku THEN Head(items).quantity ELSE 0)
         + Requested(Tail(items), sku)

\* The quantity of a sku requested by the orders recorded in a results list.
RECURSIVE RequestedBy(_, _)
RequestedBy(rs, sku) ==
    IF rs = <<>> THEN 0
    ELSE Requested(Order(Head(rs).order_id).items, sku) + RequestedBy(Tail(rs), sku)

\* C19: when a real run returns (no writer outside the call, no store
\* error), the inventory has the rows it had at the call and each quantity is
\* the initial one less what the orders in the processed list requested of
\* that sku.
C19_InventoryConservation ==
    (pc = "done" /\ ~dry_run) =>
        /\ DOMAIN inventory = DOMAIN inventory0
        /\ \A s \in DOMAIN inventory :
             inventory[s] = inventory0[s] - RequestedBy(ret[1].processed, s)

\* C19 witness: a real run returned one failed order and two processed ones
\* that took three units of A between them.
C19_Witness ==
    /\ pc = "done"
    /\ ~dry_run
    /\ Len(ret[1].processed) = 2
    /\ RequestedBy(ret[1].processed, "A") = 3
    /\ inventory["A"] = inventory0["A"] - 3

\* C20: when a store error ends the commit of an order, none of that order's
\* decrements remains: the inventory is the initial one less what the orders
\* in results requested.
C20_CommitAllOrNothing ==
    (pc = "raised" /\ exc = "store") =>
        \A s \in DOMAIN inventory :
            inventory[s] = inventory0[s] - RequestedBy(results, s)

====
